---- MODULE Spec2Model ----
(***************************************************************************)
(* Model of the BMS requirement tool: the basic two-case pipeline of       *)
(* bms_calculator.py and the advanced pipeline of adv_calculator.py.       *)
(*                                                                         *)
(* Numbers.  A Python float is modelled as an exact rational <<n, d>> in   *)
(* lowest terms with d > 0.  The pair <<0, 0>> stands for "evaluating this *)
(* expression raised ZeroDivisionError".  Python dicts are modelled as     *)
(* sequences of <<key, value>> pairs in insertion order; texts (Markdown,  *)
(* JSON) are sequences of string tokens, numbers one character per token.  *)
(***************************************************************************)
EXTENDS Integers, Sequences, FiniteSets, TLC

\* ------------------------------------------------------------------ bounds
\* series / parallel arguments range over -1 .. MaxSeries, -1 .. MaxParallel.
MaxSeries == 2
MaxParallel == 2

\* -------------------------------------------------------- float arithmetic
Abs(x) == IF x < 0 THEN -x ELSE x

RECURSIVE GCD(_, _)
GCD(a, b) == IF b = 0 THEN a ELSE GCD(b, a % b)

RECURSIVE Pow10(_)
Pow10(k) == IF k = 0 THEN 1 ELSE 10 * Pow10(k - 1)

ZeroDivisionError == <<0, 0>>
IsErr(x) == x[2] = 0

Norm(n, d) ==
    LET g == GCD(Abs(n), Abs(d))
        s == IF d < 0 THEN -1 ELSE 1
    IN  <<(s * n) \div g, (s * d) \div g>>

\* A float literal / an int-valued float.
F(n) == <<n, 1>>
\* The decimal literal n / d, e.g. 1.10 is Dec(110, 100).
Dec(n, d) == Norm(n, d)

\* Products are reduced crosswise first, sums are formed over the least common
\* denominator, so that intermediate integers stay small.
Mul(x, y) ==
    IF IsErr(x) \/ IsErr(y) THEN ZeroDivisionError
    ELSE LET g1 == GCD(Abs(x[1]), y[2])
             g2 == GCD(Abs(y[1]), x[2])
         IN  Norm((x[1] \div g1) * (y[1] \div g2), (x[2] \div g2) * (y[2] \div g1))
Add(x, y) ==
    IF IsErr(x) \/ IsErr(y) THEN ZeroDivisionError
    ELSE LET g == GCD(x[2], y[2])
         IN  Norm(x[1] * (y[2] \div g) + y[1] * (x[2] \div g), (x[2] \div g) * y[2])
Neg(x) == <<-x[1], x[2]>>
Sub(x, y) == IF IsErr(x) \/ IsErr(y) THEN ZeroDivisionError ELSE Add(x, Neg(y))
\* Python's x / y: raises ZeroDivisionError when y == 0.
Div(x, y) ==
    IF IsErr(x) \/ IsErr(y) \/ y[1] = 0 THEN ZeroDivisionError
    ELSE Mul(x, IF y[1] < 0 THEN <<-y[2], -y[1]>> ELSE <<y[2], y[1]>>)
\* Comparisons (both operands are numbers).
Le(x, y) == x[1] * y[2] <= y[1] * x[2]
Lt(x, y) == x[1] * y[2] < y[1] * x[2]
Gt(x, y) == Lt(y, x)
Zero == F(0)
One == F(1)
Max2(x, y) == IF Gt(y, x) THEN y ELSE x

\* Long division: <<q, r>> after k more decimal digits of r / d appended to q.
RECURSIVE Digits(_, _, _, _)
Digits(q, r, d, k) ==
    IF k = 0 THEN <<q, r>>
    ELSE Digits(q * 10 + ((r * 10) \div d), (r * 10) % d, d, k - 1)

\* round(x, nd): to nd decimals, ties to even.
Round(x, nd) ==
    IF IsErr(x) THEN ZeroDivisionError
    ELSE LET qr == Digits(x[1] \div x[2], x[1] % x[2], x[2], nd)
             q  == qr[1]
             r  == qr[2]
             m  == IF 2 * r < x[2] THEN q
                   ELSE IF 2 * r > x[2] THEN q + 1
                   ELSE IF q % 2 = 0 THEN q ELSE q + 1
         IN  Norm(m, Pow10(nd))

\* int(x): truncation toward zero, as a TLA+ integer.
IntOf(x) == IF x[1] >= 0 THEN x[1] \div x[2] ELSE -((-x[1]) \div x[2])

\* ------------------------------------------------------------------- texts
Digit(k) == CASE k = 0 -> "0" [] k = 1 -> "1" [] k = 2 -> "2" [] k = 3 -> "3"
              [] k = 4 -> "4" [] k = 5 -> "5" [] k = 6 -> "6" [] k = 7 -> "7"
              [] k = 8 -> "8" [] k = 9 -> "9"
DigitChars == {"0", "1", "2", "3", "4", "5", "6", "7", "8", "9"}
DigitVal(c) == CHOOSE k \in 0..9 : Digit(k) = c

\* The decimal digits of a natural number.
RECURSIVE NatStr(_)
NatStr(n) == IF n < 10 THEN <<Digit(n)>> ELSE Append(NatStr(n \div 10), Digit(n % 10))

\* str(int)
IntStr(n) == IF n < 0 THEN <<"-">> \o NatStr(-n) ELSE NatStr(n)

\* The k decimal places of the fraction f / 10^k, trailing zeros dropped,
\* at least one place kept.
RECURSIVE FracStr(_, _)
FracStr(f, k) ==
    IF k <= 1 THEN <<Digit(f)>>
    ELSE IF f % 10 = 0 THEN FracStr(f \div 10, k - 1)
    ELSE Append(FracStr(f \div 10, k - 1), Digit(f % 10))

\* Number of decimal places the repr of a modelled float needs (every value
\* that reaches a text is a rounded value or a literal with <= 3 places).
ReprPlaces == 3

\* repr(float) / str(float): shortest decimal that reads back as x.
Repr(x) ==
    IF IsErr(x) THEN <<"ZeroDivisionError">>
    ELSE LET a  == Abs(x[1])
             qr == Digits(0, a % x[2], x[2], ReprPlaces)
         IN  (IF x[1] < 0 THEN <<"-">> ELSE <<>>)
             \o NatStr(a \div x[2]) \o <<".">> \o FracStr(qr[1], ReprPlaces)

\* format(x, ".0f")
Fixed0(x) == IF IsErr(x) THEN <<"ZeroDivisionError">> ELSE IntStr(Round(x, 0)[1])

\* float(text) of a decimal numeral given as character tokens.
RECURSIVE ParseDigits(_, _, _)
ParseDigits(cs, i, acc) ==
    IF i > Len(cs) THEN acc ELSE ParseDigits(cs, i + 1, acc * 10 + DigitVal(cs[i]))

ParseFloat(cs) ==
    LET neg  == Len(cs) > 0 /\ cs[1] = "-"
        body == IF neg THEN Tail(cs) ELSE cs
        dots == {i \in 1..Len(body) : body[i] = "."}
        dot  == IF dots = {} THEN Len(body) + 1 ELSE CHOOSE i \in dots : TRUE
        ip   == SubSeq(body, 1, dot - 1)
        fp   == SubSeq(body, dot + 1, Len(body))
        v    == Norm(ParseDigits(ip \o fp, 1, 0), Pow10(Len(fp)))
    IN  IF neg THEN <<-v[1], v[2]>> ELSE v

\* "sep".join(parts)
RECURSIVE Join(_, _)
Join(sep, parts) ==
    IF Len(parts) = 0 THEN <<>>
    ELSE IF Len(parts) = 1 THEN parts[1]
    ELSE parts[1] \o <<sep>> \o Join(sep, Tail(parts))

\* -------------------------------------------------------------------- dicts
Keys(d) == [i \in 1..Len(d) |-> d[i][1]]
HasKey(d, k) == \E i \in 1..Len(d) : d[i][1] = k
Get(d, k) == d[CHOOSE i \in 1..Len(d) : d[i][1] = k][2]
\* d[k] = v : replaces in place, or appends a new key at the end.
Put(d, k, v) ==
    IF HasKey(d, k) THEN [i \in 1..Len(d) |-> IF d[i][1] = k THEN <<k, v>> ELSE d[i]]
    ELSE Append(d, <<k, v>>)

\* --------------------------------------------------------------------- json
\* json.dumps(d, indent=2).  types[k] is the Python type of the value under
\* key k: "str", "num" or "obj" (a nested dict).
Indent(level) == CASE level = 0 -> "\n" [] level = 1 -> "\n  " [] OTHER -> "\n    "
Whitespace == {"\n", "\n  ", "\n    "}
NumChars == DigitChars \cup {"-", "."}

RECURSIVE DumpObj(_, _, _)
DumpObj(d, types, level) ==
    LET member(i) ==
            LET k == d[i][1]
                v == d[i][2]
            IN  <<Indent(level + 1), "\"", k, "\"", ": ">>
                \o (CASE types[k] = "str" -> <<"\"", v, "\"">>
                      [] types[k] = "num" -> Repr(v)
                      [] types[k] = "obj" -> DumpObj(v, types, level + 1))
    IN  <<"{">> \o Join(",", [i \in 1..Len(d) |-> member(i)])
        \o <<Indent(level), "}">>

json_dumps(d, types) == DumpObj(d, types, 0)

\* json.loads(text): the parsed value; dicts keep the document order.
\* Nesting depth of position i: the braces opened and not yet closed before it.
Depth(toks, i) ==
    Cardinality({j \in 1..(i - 1) : toks[j] = "{"})
        - Cardinality({j \in 1..(i - 1) : toks[j] = "}"})

\* The elements of a finite set of integers in increasing order.
Sorted(S) ==
    [k \in 1..Cardinality(S) |-> CHOOSE c \in S : Cardinality({x \in S : x < c}) = k - 1]

\* First position after i whose token is not part of a numeral.
NumEnd(toks, i) ==
    CHOOSE e \in (i + 1)..(Len(toks) + 1) :
        /\ e = Len(toks) + 1 \/ toks[e] \notin NumChars
        /\ \A j \in i..(e - 1) : toks[j] \in NumChars

\* Position of the brace closing the object opened at position lo.
Closing(toks, lo) ==
    CHOOSE h \in (lo + 1)..Len(toks) :
        /\ toks[h] = "}"
        /\ Depth(toks, h) = Depth(toks, lo) + 1
        /\ \A j \in (lo + 1)..(h - 1) :
              toks[j] = "}" => Depth(toks, j) # Depth(toks, lo) + 1

\* The object whose opening brace is at position lo: its members are the
\* colons one level down, each preceded by its quoted key and followed by its
\* value (an object, a quoted string or a numeral).
RECURSIVE ParseObject(_, _)
ParseObject(toks, lo) ==
    LET hi == Closing(toks, lo)
        colons == Sorted({c \in (lo + 1)..(hi - 1) :
                            toks[c] = ": " /\ Depth(toks, c) = Depth(toks, lo) + 1})
        value(c) ==
            IF toks[c + 1] = "{" THEN ParseObject(toks, c + 1)
            ELSE IF toks[c + 1] = "\"" THEN toks[c + 2]
            ELSE ParseFloat(SubSeq(toks, c + 1, NumEnd(toks, c + 1) - 1))
    IN  [k \in 1..Len(colons) |-> <<toks[colons[k] - 2], value(colons[k])>>]

json_loads(toks) == ParseObject(toks, 1)

\* ------------------------------------------------- bms_calculator: globals
VARIABLES
    SHORT_LIVED_HIGH_POWER,  \* module global, MissionCaseConfig
    LONG_LIVED_LOW_POWER,    \* module global, MissionCaseConfig
    op,                      \* the function whose call is in hand ("" when none)
    args,                    \* its arguments
    ret,                     \* its return value (None when it raised)
    exc,                     \* the exception it raised, "" when it returned
    log                      \* <<args, output, last>> of one calculate_api call

vars == <<SHORT_LIVED_HIGH_POWER, LONG_LIVED_LOW_POWER, op, args, ret, exc, log>>

None == <<>>

ShortConfig ==
    [name |-> "short_lived_high_power",
     description |-> "Short-lived, high-power (e.g. LEO, high DOD acceptable)",
     capacity_margin |-> Dec(110, 100),
     soc_min_end_of_eclipse |-> Dec(20, 100),
     soc_max_charge |-> Dec(100, 100),
     reserve_fraction |-> Dec(10, 100)]

LongConfig ==
    [name |-> "long_lived_low_power",
     description |-> "Long-lived, low-power (e.g. GEO, conservative for life)",
     capacity_margin |-> Dec(120, 100),
     soc_min_end_of_eclipse |-> Dec(30, 100),
     soc_max_charge |-> Dec(90, 100),
     reserve_fraction |-> Dec(25, 100)]

MissionInputs(period, eclipse, power, voltage) ==
    [orbital_period_min |-> period,
     eclipse_duration_min |-> eclipse,
     average_payload_power_W |-> power,
     nominal_battery_voltage_V |-> voltage]

\* ----------------------------------------------- bms_calculator: functions
energy_during_eclipse_Wh(P_W, t_eclipse_min) ==
    Mul(P_W, Div(t_eclipse_min, F(60)))

\* Variant: the reserve fraction enters the formula.
required_usable_capacity_Wh_with_reserve(E_eclipse_Wh, margin, reserve_fraction) ==
    Mul(Mul(E_eclipse_Wh, margin), Add(One, reserve_fraction))

required_usable_capacity_Wh(E_eclipse_Wh, margin, reserve_fraction) ==
    Mul(E_eclipse_Wh, margin)

\* Variant: the division is not guarded.
required_usable_capacity_Ah_unguarded(C_Wh, V_nom) == Div(C_Wh, V_nom)

required_usable_capacity_Ah(C_Wh, V_nom) ==
    IF Gt(V_nom, Zero) THEN Div(C_Wh, V_nom) ELSE Zero

\* Variant: the power, not the current, is divided by the capacity.
average_c_rate_during_eclipse_of_power(P_W, V_nom, C_usable_Ah) ==
    IF Le(C_usable_Ah, Zero) \/ Le(V_nom, Zero) THEN Zero
    ELSE Div(P_W, C_usable_Ah)

average_c_rate_during_eclipse(P_W, V_nom, C_usable_Ah) ==
    IF Le(C_usable_Ah, Zero) \/ Le(V_nom, Zero) THEN Zero
    ELSE LET I_avg_A == Div(P_W, V_nom)
         IN  Div(I_avg_A, C_usable_Ah)

format_markdown(data) ==
    LET inputs == Get(data, "inputs")
        soc    == Get(data, "soc_operating_window")
        mr     == Get(data, "margin_and_reserve")
        lines  == <<
          <<"## BMS requirement snippet: ", Get(data, "case_name")>>,
          <<>>,
          <<"*", Get(data, "case_description"), "*">>,
          <<>>,
          <<"### Inputs">>,
          <<"- Orbital period: ">> \o Repr(Get(inputs, "orbital_period_min")) \o <<" min">>,
          <<"- Eclipse duration: ">> \o Repr(Get(inputs, "eclipse_duration_min")) \o <<" min">>,
          <<"- Average payload power: ">> \o Repr(Get(inputs, "average_payload_power_W")) \o <<" W">>,
          <<"- Nominal battery voltage: ">> \o Repr(Get(inputs, "nominal_battery_voltage_V")) \o <<" V">>,
          <<>>,
          <<"### Derived requirements">>,
          <<"- **Required usable capacity:** ">> \o Repr(Get(data, "required_usable_capacity_Wh"))
              \o <<" Wh (">> \o Repr(Get(data, "required_usable_capacity_Ah")) \o <<" Ah)">>,
          <<"- **Average C-rate during eclipse:** ">>
              \o Repr(Get(data, "average_c_rate_during_eclipse")) \o <<" C">>,
          <<"- **SOC operating window:** ">> \o Fixed0(Mul(Get(soc, "min"), F(100)))
              \o <<"% (min, EOE) to ">> \o Fixed0(Mul(Get(soc, "max"), F(100)))
              \o <<"% (max, EOC)">>,
          <<"- **Eclipse energy:** ">> \o Repr(Get(data, "eclipse_energy_Wh")) \o <<" Wh">>,
          <<>>,
          <<"### Margin / reserve">>,
          <<"- Capacity margin: ">> \o Repr(Get(mr, "capacity_margin")),
          <<"- Reserve fraction: ">> \o Repr(Get(mr, "reserve_fraction"))
        >>
    IN  Join("\n", lines)

\* Python types of the values of the dict `data` of build_snippet.
DataTypes ==
    [k \in {"case_name", "case_description"} |-> "str"]
    @@ [k \in {"inputs", "soc_operating_window", "margin_and_reserve"} |-> "obj"]
    @@ [k \in {"required_usable_capacity_Wh", "required_usable_capacity_Ah",
               "average_c_rate_during_eclipse", "eclipse_energy_Wh",
               "orbital_period_min", "eclipse_duration_min",
               "average_payload_power_W", "nominal_battery_voltage_V",
               "min", "max", "min_end_of_eclipse",
               "capacity_margin", "reserve_fraction"} |-> "num"]

\* Variant: every intermediate value is rounded before it is used.
snippet_locals_rounded(inp, config) ==
    LET E_eclipse == Round(energy_during_eclipse_Wh(inp.average_payload_power_W,
                                                    inp.eclipse_duration_min), 2)
        C_Wh == Round(required_usable_capacity_Wh(E_eclipse, config.capacity_margin,
                                                  config.reserve_fraction), 2)
        C_Ah == Round(required_usable_capacity_Ah(C_Wh, inp.nominal_battery_voltage_V), 2)
        C_rate == average_c_rate_during_eclipse(inp.average_payload_power_W,
                                                inp.nominal_battery_voltage_V, C_Ah)
    IN  [E_eclipse |-> E_eclipse, C_Wh |-> C_Wh, C_Ah |-> C_Ah, C_rate |-> C_rate]

\* The unrounded intermediate values of build_snippet (its local variables).
snippet_locals(inp, config) ==
    LET E_eclipse == energy_during_eclipse_Wh(inp.average_payload_power_W,
                                              inp.eclipse_duration_min)
        C_Wh == required_usable_capacity_Wh(E_eclipse, config.capacity_margin,
                                            config.reserve_fraction)
        C_Ah == required_usable_capacity_Ah(C_Wh, inp.nominal_battery_voltage_V)
        C_rate == average_c_rate_during_eclipse(inp.average_payload_power_W,
                                                inp.nominal_battery_voltage_V, C_Ah)
    IN  [E_eclipse |-> E_eclipse, C_Wh |-> C_Wh, C_Ah |-> C_Ah, C_rate |-> C_rate]

\* build_snippet: the BMSRequirementSnippet it returns.  A numeric field equal
\* to ZeroDivisionError means the call raised before returning.
build_snippet(inp, config) ==
    LET loc == snippet_locals(inp, config)
        soc_window == <<
            <<"min", config.soc_min_end_of_eclipse>>,
            <<"max", config.soc_max_charge>>,
            <<"min_end_of_eclipse", config.soc_min_end_of_eclipse>> >>
        margin_reserve == <<
            <<"capacity_margin", config.capacity_margin>>,
            <<"reserve_fraction", config.reserve_fraction>> >>
        inputs_dict == <<
            <<"orbital_period_min", inp.orbital_period_min>>,
            <<"eclipse_duration_min", inp.eclipse_duration_min>>,
            <<"average_payload_power_W", inp.average_payload_power_W>>,
            <<"nominal_battery_voltage_V", inp.nominal_battery_voltage_V>> >>
        data == <<
            <<"case_name", config.name>>,
            <<"case_description", config.description>>,
            <<"inputs", inputs_dict>>,
            <<"required_usable_capacity_Wh", Round(loc.C_Wh, 2)>>,
            <<"required_usable_capacity_Ah", Round(loc.C_Ah, 2)>>,
            <<"average_c_rate_during_eclipse", Round(loc.C_rate, 3)>>,
            <<"soc_operating_window", soc_window>>,
            <<"margin_and_reserve", margin_reserve>>,
            <<"eclipse_energy_Wh", Round(loc.E_eclipse, 2)>> >>
    IN  [case_name |-> config.name,
         case_description |-> config.description,
         inputs |-> inputs_dict,
         required_usable_capacity_Wh |-> Round(loc.C_Wh, 2),
         required_usable_capacity_Ah |-> Round(loc.C_Ah, 2),
         average_c_rate_during_eclipse |-> Round(loc.C_rate, 3),
         soc_operating_window |-> soc_window,
         margin_and_reserve |-> margin_reserve,
         snippet_md |-> format_markdown(data),
         snippet_json |-> json_dumps(data, DataTypes)]

\* Whether the call that built this snippet raised.
SnippetRaised(s) ==
    \/ IsErr(s.required_usable_capacity_Wh)
    \/ IsErr(s.required_usable_capacity_Ah)
    \/ IsErr(s.average_c_rate_during_eclipse)

\* Variant: the serialized text is added too, under "snippet_json".
snippet_dict_with_json(snippet) ==
    Put(Put(json_loads(snippet.snippet_json), "snippet_md", snippet.snippet_md),
        "snippet_json", snippet.snippet_json)

\* json.loads(snippet.snippet_json) with the key "snippet_md" added: the dict
\* calculate_api builds for one case.
snippet_dict(snippet) ==
    Put(json_loads(snippet.snippet_json), "snippet_md", snippet.snippet_md)

\* The dict calculate_api returns for the two snippets built; an exception of
\* build_snippet propagates.
api_result(short, long_) ==
    IF SnippetRaised(short) \/ SnippetRaised(long_) THEN None
    ELSE << <<"short", snippet_dict(short)>>, <<"long", snippet_dict(long_)>> >>

\* calculate_api: {"short": <snippet_dict>, "long": <snippet_dict>}.
calculate_api(orbital_period_min, eclipse_duration_min, average_payload_power_W, nominal_battery_voltage_V) ==
    LET inp == MissionInputs(orbital_period_min, eclipse_duration_min,
                             average_payload_power_W, nominal_battery_voltage_V)
    IN  api_result(build_snippet(inp, SHORT_LIVED_HIGH_POWER),
                   build_snippet(inp, LONG_LIVED_LOW_POWER))

\* ----------------------------------------------- adv_calculator: functions
Pct(p) == Sub(One, Div(p, F(100)))

capacity_after_pack_loss_wh(capacity_wh, pack_loss_pct) == Mul(capacity_wh, Pct(pack_loss_pct))

capacity_after_divergence_wh(capacity_wh, divergence_pct) == Mul(capacity_wh, Pct(divergence_pct))

capacity_after_redundancy_wh(capacity_wh, redundancy_n) == Mul(capacity_wh, Add(One, redundancy_n))

capacity_after_ageing_wh(capacity_wh, ageing_pct) == Mul(capacity_wh, Pct(ageing_pct))

capacity_after_temp_wh(capacity_wh, temp_pct) == Mul(capacity_wh, Pct(temp_pct))

\* Variant: the reserve is subtracted without the floor at zero.
effective_capacity_after_anomaly_wh_no_floor(capacity_wh, anomaly_reserve_wh) ==
    Sub(capacity_wh, anomaly_reserve_wh)

effective_capacity_after_anomaly_wh(capacity_wh, anomaly_reserve_wh) ==
    Max2(Zero, Sub(capacity_wh, anomaly_reserve_wh))

\* Variant: every step rounds its output before the next step uses it.
sizing_summary_step_rounded(base_capacity_wh, v_nom, pack_loss_pct, divergence_pct, redundancy_n, ageing_pct, temp_pct, anomaly_wh) ==
    LET after_pack == Round(capacity_after_pack_loss_wh(Round(base_capacity_wh, 2), pack_loss_pct), 2)
        after_div  == Round(capacity_after_divergence_wh(after_pack, divergence_pct), 2)
        after_red  == Round(capacity_after_redundancy_wh(after_div, redundancy_n), 2)
        after_age  == Round(capacity_after_ageing_wh(after_red, ageing_pct), 2)
        after_temp == Round(capacity_after_temp_wh(after_age, temp_pct), 2)
        effective_wh == effective_capacity_after_anomaly_wh(after_temp, anomaly_wh)
        effective_ah == IF Gt(v_nom, Zero) THEN Div(effective_wh, v_nom) ELSE Zero
    IN  << <<"base_capacity_Wh", Round(base_capacity_wh, 2)>>,
           <<"after_pack_loss_Wh", Round(after_pack, 2)>>,
           <<"after_divergence_Wh", Round(after_div, 2)>>,
           <<"after_redundancy_Wh", Round(after_red, 2)>>,
           <<"after_ageing_Wh", Round(after_age, 2)>>,
           <<"after_temp_Wh", Round(after_temp, 2)>>,
           <<"anomaly_reserve_Wh", Round(anomaly_wh, 2)>>,
           <<"effective_capacity_Wh", Round(effective_wh, 2)>>,
           <<"effective_capacity_Ah", Round(effective_ah, 2)>> >>

sizing_summary(base_capacity_wh, v_nom, pack_loss_pct, divergence_pct, redundancy_n, ageing_pct, temp_pct, anomaly_wh) ==
    LET after_pack == capacity_after_pack_loss_wh(base_capacity_wh, pack_loss_pct)
        after_div  == capacity_after_divergence_wh(after_pack, divergence_pct)
        after_red  == capacity_after_redundancy_wh(after_div, redundancy_n)
        after_age  == capacity_after_ageing_wh(after_red, ageing_pct)
        after_temp == capacity_after_temp_wh(after_age, temp_pct)
        effective_wh == effective_capacity_after_anomaly_wh(after_temp, anomaly_wh)
        effective_ah == IF Gt(v_nom, Zero) THEN Div(effective_wh, v_nom) ELSE Zero
    IN  << <<"base_capacity_Wh", Round(base_capacity_wh, 2)>>,
           <<"after_pack_loss_Wh", Round(after_pack, 2)>>,
           <<"after_divergence_Wh", Round(after_div, 2)>>,
           <<"after_redundancy_Wh", Round(after_red, 2)>>,
           <<"after_ageing_Wh", Round(after_age, 2)>>,
           <<"after_temp_Wh", Round(after_temp, 2)>>,
           <<"anomaly_reserve_Wh", Round(anomaly_wh, 2)>>,
           <<"effective_capacity_Wh", Round(effective_wh, 2)>>,
           <<"effective_capacity_Ah", Round(effective_ah, 2)>> >>

\* max(1, int(x)), a Python int.
FlooredCount(x) == IF IntOf(x) > 1 THEN IntOf(x) ELSE 1

\* Variant: the counts are coerced to integers but not floored at 1.
cell_level_outputs_no_floor(effective_capacity_ah, cell_ah, series, parallel, eol_factor) ==
    LET series_   == IntOf(series)
        parallel_ == IntOf(parallel)
        total_cells == series_ * parallel_
        string_config == IntStr(series_) \o <<"s × ">> \o IntStr(parallel_) \o <<"p">>
        pack_capacity_ah == Mul(Mul(cell_ah, F(parallel_)), eol_factor)
    IN  << <<"cell_capacity_Ah", Round(cell_ah, 2)>>,
           <<"series", series_>>,
           <<"parallel", parallel_>>,
           <<"total_cells", total_cells>>,
           <<"string_config", string_config>>,
           <<"pack_capacity_Ah", Round(pack_capacity_ah, 2)>>,
           <<"eol_factor", Round(eol_factor, 2)>> >>

\* cell_level_outputs.  series and parallel arrive as numbers (floats or ints);
\* the returned "series", "parallel" and "total_cells" are Python ints.
cell_level_outputs(effective_capacity_ah, cell_ah, series, parallel, eol_factor) ==
    LET series_   == FlooredCount(series)
        parallel_ == FlooredCount(parallel)
        total_cells == series_ * parallel_
        string_config == IntStr(series_) \o <<"s × ">> \o IntStr(parallel_) \o <<"p">>
        pack_capacity_ah == Mul(Mul(cell_ah, F(parallel_)), eol_factor)
    IN  << <<"cell_capacity_Ah", Round(cell_ah, 2)>>,
           <<"series", series_>>,
           <<"parallel", parallel_>>,
           <<"total_cells", total_cells>>,
           <<"string_config", string_config>>,
           <<"pack_capacity_Ah", Round(pack_capacity_ah, 2)>>,
           <<"eol_factor", Round(eol_factor, 2)>> >>

TaperNote ==
    "Taper/step charge per mission profile (e.g. constant current then constant voltage to EOCV)."

\* charge_discharge_limits.  series is an int.
charge_discharge_limits(pack_capacity_ah, series, eocv_per_cell_v, eodv_per_cell_v, c_rate_charge, c_rate_discharge) ==
    LET max_charge_a    == Mul(pack_capacity_ah, c_rate_charge)
        max_discharge_a == Mul(pack_capacity_ah, c_rate_discharge)
        eocv_pack == Mul(eocv_per_cell_v, F(series))
        eodv_pack == Mul(eodv_per_cell_v, F(series))
    IN  << <<"max_charge_current_A", Round(max_charge_a, 2)>>,
           <<"max_discharge_current_A", Round(max_discharge_a, 2)>>,
           <<"eocv_pack_V", Round(eocv_pack, 2)>>,
           <<"eodv_pack_V", Round(eodv_pack, 2)>>,
           <<"c_rate_charge", Round(c_rate_charge, 2)>>,
           <<"c_rate_discharge", Round(c_rate_discharge, 2)>>,
           <<"taper_note", TaperNote>> >>

\* Variant: the first two requirements embed each other's current.
named_requirements_swapped(limits) ==
    << <<"REQ-BMS-001:", " Max charge current (A): ">> \o Repr(Get(limits, "max_discharge_current_A")),
       <<"REQ-BMS-002:", " Max discharge current (A): ">> \o Repr(Get(limits, "max_charge_current_A")),
       <<"REQ-BMS-003:", " End-of-charge voltage, pack (V): ">> \o Repr(Get(limits, "eocv_pack_V")),
       <<"REQ-BMS-004:", " End-of-discharge voltage, pack (V): ">> \o Repr(Get(limits, "eodv_pack_V")),
       <<"REQ-BMS-005:", " Max charge C-rate: ">> \o Repr(Get(limits, "c_rate_charge")) \o <<"C">>,
       <<"REQ-BMS-006:", " Max discharge C-rate: ">> \o Repr(Get(limits, "c_rate_discharge")) \o <<"C">>,
       <<"REQ-BMS-007:", " ", Get(limits, "taper_note")>> >>

\* named_requirements: a list of strings, each a token sequence whose first
\* token is the requirement id with its colon.
named_requirements(limits) ==
    << <<"REQ-BMS-001:", " Max charge current (A): ">> \o Repr(Get(limits, "max_charge_current_A")),
       <<"REQ-BMS-002:", " Max discharge current (A): ">> \o Repr(Get(limits, "max_discharge_current_A")),
       <<"REQ-BMS-003:", " End-of-charge voltage, pack (V): ">> \o Repr(Get(limits, "eocv_pack_V")),
       <<"REQ-BMS-004:", " End-of-discharge voltage, pack (V): ">> \o Repr(Get(limits, "eodv_pack_V")),
       <<"REQ-BMS-005:", " Max charge C-rate: ">> \o Repr(Get(limits, "c_rate_charge")) \o <<"C">>,
       <<"REQ-BMS-006:", " Max discharge C-rate: ">> \o Repr(Get(limits, "c_rate_discharge")) \o <<"C">>,
       <<"REQ-BMS-007:", " ", Get(limits, "taper_note")>> >>

\* Variant: the limits are computed from the arguments, not from the values
\* cell_level reports (the unrounded pack capacity, the series count as given).
compute_advanced_from_arguments(p) ==
    LET sizing == sizing_summary(p.base_capacity_wh, p.v_nom, p.pack_loss_pct,
                                 p.divergence_pct, p.redundancy_n, p.ageing_pct,
                                 p.temp_pct, p.anomaly_wh)
        cell == cell_level_outputs(Get(sizing, "effective_capacity_Ah"), p.cell_ah,
                                   p.series, p.parallel, p.eol_factor)
        limits == charge_discharge_limits(
                      Mul(Mul(p.cell_ah, F(FlooredCount(p.parallel))), p.eol_factor),
                      IntOf(p.series),
                      p.eocv_per_cell_v, p.eodv_per_cell_v,
                      p.c_rate_charge, p.c_rate_discharge)
        reqs == named_requirements(limits)
    IN  << <<"sizing_summary", sizing>>,
           <<"cell_level", cell>>,
           <<"charge_discharge_limits", limits>>,
           <<"named_requirements", reqs>> >>

\* compute_advanced; p is the record of its sixteen arguments.
compute_advanced(p) ==
    LET sizing == sizing_summary(p.base_capacity_wh, p.v_nom, p.pack_loss_pct,
                                 p.divergence_pct, p.redundancy_n, p.ageing_pct,
                                 p.temp_pct, p.anomaly_wh)
        cell == cell_level_outputs(Get(sizing, "effective_capacity_Ah"), p.cell_ah,
                                   p.series, p.parallel, p.eol_factor)
        limits == charge_discharge_limits(Get(cell, "pack_capacity_Ah"), Get(cell, "series"),
                                          p.eocv_per_cell_v, p.eodv_per_cell_v,
                                          p.c_rate_charge, p.c_rate_discharge)
        reqs == named_requirements(limits)
    IN  << <<"sizing_summary", sizing>>,
           <<"cell_level", cell>>,
           <<"charge_discharge_limits", limits>>,
           <<"named_requirements", reqs>> >>

\* The default arguments of compute_advanced and of the functions it calls.
Defaults ==
    [pack_loss_pct |-> F(2), divergence_pct |-> F(3), redundancy_n |-> F(1),
     ageing_pct |-> F(10), temp_pct |-> F(5), anomaly_wh |-> F(20),
     cell_ah |-> F(5), series |-> F(8), parallel |-> F(1), eol_factor |-> Dec(8, 10),
     eocv_per_cell_v |-> Dec(42, 10), eodv_per_cell_v |-> F(3),
     c_rate_charge |-> Dec(5, 10), c_rate_discharge |-> F(2)]

\* ------------------------------------------------------------ input domains
PeriodVals  == {F(90)}
EclipseVals == {F(-35), F(0), F(35)}
PowerVals   == {F(-500), F(0), F(10), F(500)}
VoltageVals == {F(-28), F(0), F(12), F(28)}

EnergyVals  == {Dec(-100, 1), F(0), Dec(1, 3), F(100), Dec(875, 3)}
MarginVals  == {Dec(1, 2), F(1), Dec(110, 100), Dec(120, 100), F(2)}
ReserveVals == {F(0), Dec(10, 100), Dec(25, 100)}
CapWhVals   == {Dec(-1925, 6), F(0), Dec(1925, 6), F(350)}
CapAhVals   == {Dec(-275, 24), F(0), Dec(275, 24), Dec(1146, 100)}

BaseVals       == {Dec(1234, 100), F(200)}
VNomVals       == {F(0), F(28)}
PackLossVals   == {F(2), F(90)}
DivergenceVals == {F(0), F(50)}
RedundancyVals == {F(1), F(9)}
AgeingVals     == {F(0), F(10)}
TempVals       == {F(50), F(150)}
AnomalyVals    == {F(0), F(20), F(200)}

EffAhVals   == {F(0), F(10)}
CellAhVals  == {F(5), Dec(114, 100)}
SeriesVals   == {F(i) : i \in -1..MaxSeries} \cup {F(8), Dec(25, 10)}
ParallelVals == {F(i) : i \in -1..MaxParallel} \cup {Dec(25, 10)}
EolVals     == {Dec(80, 100), Dec(90, 100)}
PackAhVals  == {F(8), Dec(106, 100), Dec(2052, 1000)}
CRateChargeVals == {Dec(5, 10), Dec(333, 1000)}

\* -------------------------------------------------------------------- state
Init ==
    /\ SHORT_LIVED_HIGH_POWER = ShortConfig
    /\ LONG_LIVED_LOW_POWER = LongConfig
    /\ op = ""
    /\ args = None
    /\ ret = None
    /\ exc = ""
    /\ log = <<>>

Globals == <<SHORT_LIVED_HIGH_POWER, LONG_LIVED_LOW_POWER>>

\* ---------------------------------------------- calls of the basic pipeline
\* Each action is one call made while no call is in progress: it records the
\* function, its arguments and its outcome.  A float result equal to
\* ZeroDivisionError is a raised exception.
RequiredUsableCapacityWh ==
    \E E \in EnergyVals, m \in MarginVals, r \in ReserveVals :
        LET value == required_usable_capacity_Wh(E, m, r)
        IN  /\ op = ""
            /\ op' = "required_usable_capacity_Wh"
            /\ args' = <<E, m, r>>
            /\ ret' = IF IsErr(value) THEN None ELSE value
            /\ exc' = IF IsErr(value) THEN "ZeroDivisionError" ELSE ""
            /\ UNCHANGED <<Globals, log>>

RequiredUsableCapacityAh ==
    \E C \in CapWhVals, V \in VoltageVals :
        LET value == required_usable_capacity_Ah(C, V)
        IN  /\ op = ""
            /\ op' = "required_usable_capacity_Ah"
            /\ args' = <<C, V>>
            /\ ret' = IF IsErr(value) THEN None ELSE value
            /\ exc' = IF IsErr(value) THEN "ZeroDivisionError" ELSE ""
            /\ UNCHANGED <<Globals, log>>

AverageCRateDuringEclipse ==
    \E P \in PowerVals, V \in VoltageVals, C \in CapAhVals :
        LET value == average_c_rate_during_eclipse(P, V, C)
        IN  /\ op = ""
            /\ op' = "average_c_rate_during_eclipse"
            /\ args' = <<P, V, C>>
            /\ ret' = IF IsErr(value) THEN None ELSE value
            /\ exc' = IF IsErr(value) THEN "ZeroDivisionError" ELSE ""
            /\ UNCHANGED <<Globals, log>>

\* build_snippet(inp, config), as main() calls it for each of the two cases.
BuildSnippet ==
    \E period \in PeriodVals, eclipse \in EclipseVals, power \in PowerVals,
       voltage \in VoltageVals, config \in {SHORT_LIVED_HIGH_POWER, LONG_LIVED_LOW_POWER} :
        LET inp == MissionInputs(period, eclipse, power, voltage)
            snippet == build_snippet(inp, config)
        IN  /\ op = ""
            /\ op' = "build_snippet"
            /\ args' = <<inp, config>>
            /\ ret' = IF SnippetRaised(snippet) THEN None ELSE snippet
            /\ exc' = IF SnippetRaised(snippet) THEN "ZeroDivisionError" ELSE ""
            /\ UNCHANGED <<Globals, log>>

\* The argument tuples calculate_api is called with.
ApiArgs == PeriodVals \X {F(0), F(35)} \X {F(0), F(10), F(500)} \X {F(0), F(28)}

\* Variant: a call leaves the margin of the long-lived case in the short-lived
\* constant.
CalculateApi_writes_constant ==
    \E a \in ApiArgs :
        /\ op = ""
        /\ op' = "calculate_api"
        /\ args' = a
        /\ ret' = calculate_api(a[1], a[2], a[3], a[4])
        /\ exc' = IF ret' = None THEN "ZeroDivisionError" ELSE ""
        /\ log' \in {IF log = None THEN None ELSE <<log[1], log[2], FALSE>>,
                     <<a, ret', TRUE>>}
        /\ SHORT_LIVED_HIGH_POWER' =
              [SHORT_LIVED_HIGH_POWER EXCEPT
                  !.capacity_margin = LONG_LIVED_LOW_POWER.capacity_margin]
        /\ UNCHANGED LONG_LIVED_LOW_POWER

\* calculate_api(...).  The log remembers the arguments and the output of one
\* earlier call, with a flag telling whether the last call wrote it; any call
\* may become the remembered one.
CalculateApi ==
    \E a \in ApiArgs :
        /\ op = ""
        /\ op' = "calculate_api"
        /\ args' = a
        /\ ret' = calculate_api(a[1], a[2], a[3], a[4])
        /\ exc' = IF ret' = None THEN "ZeroDivisionError" ELSE ""
        /\ log' \in {IF log = None THEN None ELSE <<log[1], log[2], FALSE>>,
                     <<a, ret', TRUE>>}
        /\ UNCHANGED Globals

\* ------------------------------------------- calls of the advanced pipeline
\* The argument tuples sizing_summary is called with: a grid, and the defaults.
SizingArgs ==
    (BaseVals \X VNomVals \X PackLossVals \X DivergenceVals \X RedundancyVals
        \X AgeingVals \X TempVals \X AnomalyVals)
    \cup {<<F(200), F(28), Defaults.pack_loss_pct, Defaults.divergence_pct,
            Defaults.redundancy_n, Defaults.ageing_pct, Defaults.temp_pct,
            Defaults.anomaly_wh>>}

SizingSummary ==
    \E a \in SizingArgs :
        /\ op = ""
        /\ op' = "sizing_summary"
        /\ args' = a
        /\ ret' = sizing_summary(a[1], a[2], a[3], a[4], a[5], a[6], a[7], a[8])
        /\ exc' = ""
        /\ UNCHANGED <<Globals, log>>

CellLevelOutputs ==
    \E e \in EffAhVals, c \in CellAhVals, sr \in SeriesVals, pr \in ParallelVals,
       eol \in EolVals :
        /\ op = ""
        /\ op' = "cell_level_outputs"
        /\ args' = <<e, c, sr, pr, eol>>
        /\ ret' = cell_level_outputs(e, c, sr, pr, eol)
        /\ exc' = ""
        /\ UNCHANGED <<Globals, log>>

\* The argument tuples charge_discharge_limits is called with.
LimitsArgs ==
    PackAhVals \X {1, 8} \X {Defaults.eocv_per_cell_v} \X {Defaults.eodv_per_cell_v}
        \X CRateChargeVals \X {Defaults.c_rate_discharge}

ChargeDischargeLimits ==
    \E a \in LimitsArgs :
        /\ op = ""
        /\ op' = "charge_discharge_limits"
        /\ args' = a
        /\ ret' = charge_discharge_limits(a[1], a[2], a[3], a[4], a[5], a[6])
        /\ exc' = ""
        /\ UNCHANGED <<Globals, log>>

NamedRequirements ==
    \E a \in LimitsArgs :
        LET limits == charge_discharge_limits(a[1], a[2], a[3], a[4], a[5], a[6])
        IN  /\ op = ""
            /\ op' = "named_requirements"
            /\ args' = <<limits>>
            /\ ret' = named_requirements(limits)
            /\ exc' = ""
            /\ UNCHANGED <<Globals, log>>

\* The argument records compute_advanced is called with.
AdvancedArgs ==
    {([Defaults EXCEPT !.cell_ah = c, !.series = sr, !.parallel = pr, !.eol_factor = eol]
        @@ [base_capacity_wh |-> Dec(1234, 100), v_nom |-> F(28)]) :
        c \in CellAhVals, sr \in SeriesVals, pr \in {F(i) : i \in -1..MaxParallel},
        eol \in EolVals}

ComputeAdvanced ==
    \E p \in AdvancedArgs :
        /\ op = ""
        /\ op' = "compute_advanced"
        /\ args' = p
        /\ ret' = compute_advanced(p)
        /\ exc' = ""
        /\ UNCHANGED <<Globals, log>>

\* The caller takes the outcome of the call (the server sends it as the
\* response); the next call can then be made.
Return ==
    /\ op # ""
    /\ op' = ""
    /\ args' = None
    /\ ret' = None
    /\ exc' = ""
    /\ UNCHANGED <<Globals, log>>

\* ------------------------------------------------------------ specifications
\* The two entry points the server's routes call, request after request, in
\* any interleaving.
Next == CalculateApi \/ ComputeAdvanced \/ Return
Spec == Init /\ [][Next]_vars

\* The functions of bms_calculator.py, called directly.
NextBasic ==
    \/ RequiredUsableCapacityWh
    \/ RequiredUsableCapacityAh
    \/ AverageCRateDuringEclipse
    \/ BuildSnippet
    \/ Return
SpecBasic == Init /\ [][NextBasic]_vars

\* The functions of adv_calculator.py, called directly.
NextAdvanced ==
    \/ SizingSummary
    \/ CellLevelOutputs
    \/ ChargeDischargeLimits
    \/ NamedRequirements
    \/ ComputeAdvanced
    \/ Return
SpecAdvanced == Init /\ [][NextAdvanced]_vars

\* ================================================================= properties
\* The keys of the dict `data` of build_snippet, in insertion order.
DataKeys ==
    <<"case_name", "case_description", "inputs", "required_usable_capacity_Wh",
      "required_usable_capacity_Ah", "average_c_rate_during_eclipse",
      "soc_operating_window", "margin_and_reserve", "eclipse_energy_Wh">>

IsNumber(x) == x[2] > 0

\* A BMSRequirementSnippet with every field filled in for the given arguments.
FullyPopulated(s, inp, config) ==
    /\ s.case_name = config.name
    /\ s.case_description = config.description
    /\ Keys(s.inputs) = <<"orbital_period_min", "eclipse_duration_min",
                          "average_payload_power_W", "nominal_battery_voltage_V">>
    /\ Get(s.inputs, "nominal_battery_voltage_V") = inp.nominal_battery_voltage_V
    /\ IsNumber(s.required_usable_capacity_Wh)
    /\ IsNumber(s.required_usable_capacity_Ah)
    /\ IsNumber(s.average_c_rate_during_eclipse)
    /\ Keys(s.soc_operating_window) = <<"min", "max", "min_end_of_eclipse">>
    /\ Keys(s.margin_and_reserve) = <<"capacity_margin", "reserve_fraction">>
    /\ Len(s.snippet_md) > 0
    /\ Keys(json_loads(s.snippet_json)) = DataKeys

\* C1: for V_nom <= 0 required_usable_capacity_Ah returns 0; for V_nom <= 0 or
\* capacity_Ah <= 0 average_c_rate_during_eclipse returns 0; build_snippet on
\* any combination of negative, zero and positive power, eclipse duration and
\* voltage raises no ZeroDivisionError and returns a fully populated snippet,
\* whose Ah and C-rate are 0 when the voltage is not positive.
C1_NoDivisionByZero ==
    /\ op = "required_usable_capacity_Ah" /\ Le(args[2], Zero)
          => exc = "" /\ ret = Zero
    /\ op = "average_c_rate_during_eclipse" /\ (Le(args[2], Zero) \/ Le(args[3], Zero))
          => exc = "" /\ ret = Zero
    /\ op = "build_snippet"
          => /\ exc = ""
             /\ FullyPopulated(ret, args[1], args[2])
             /\ Le(args[1].nominal_battery_voltage_V, Zero)
                   => /\ ret.required_usable_capacity_Ah = Zero
                      /\ ret.average_c_rate_during_eclipse = Zero

\* build_snippet has returned for zero voltage, negative eclipse and positive power.
C1_Witness ==
    /\ op = "build_snippet"
    /\ exc = ""
    /\ args[1].nominal_battery_voltage_V = Zero
    /\ Lt(args[1].eclipse_duration_min, Zero)
    /\ Gt(args[1].average_payload_power_W, Zero)
    /\ ret.required_usable_capacity_Ah = Zero
    /\ Lt(ret.required_usable_capacity_Wh, Zero)

\* x = y * z, by cross-multiplication.
IsProduct(x, y, z) == x[1] * y[2] * z[2] = y[1] * z[1] * x[2]

\* C2: for margin >= 1 and eclipse_energy_Wh >= 0 the result of
\* required_usable_capacity_Wh is eclipse_energy_Wh * margin, is the same for
\* every reserve_fraction, and does not decrease when eclipse_energy_Wh or
\* margin grows.
C2_UsableCapacityWh ==
    op = "required_usable_capacity_Wh" /\ Le(One, args[2]) /\ Le(Zero, args[1])
    => /\ exc = ""
       /\ IsProduct(ret, args[1], args[2])
       /\ \A r \in ReserveVals :
             required_usable_capacity_Wh(args[1], args[2], r) = ret
       /\ \A E \in EnergyVals :
             Le(args[1], E) => Le(ret, required_usable_capacity_Wh(E, args[2], args[3]))
       /\ \A m \in MarginVals :
             Le(args[2], m) => Le(ret, required_usable_capacity_Wh(args[1], m, args[3]))

\* required_usable_capacity_Wh(875/3, 1.1, 0.25) has returned 1925/6.
C2_Witness ==
    /\ op = "required_usable_capacity_Wh"
    /\ args = <<Dec(875, 3), Dec(110, 100), Dec(25, 100)>>
    /\ ret = Dec(1925, 6)

\* The inputs and the configuration of case c (1 short, 2 long) of a call of
\* calculate_api with the argument tuple a.
ApiInputs(a) == MissionInputs(a[1], a[2], a[3], a[4])
ApiConfig(c) == IF c = 1 THEN SHORT_LIVED_HIGH_POWER ELSE LONG_LIVED_LOW_POWER

\* C3 as stated: each of the two dicts calculate_api returns holds the record
\* fields, the Markdown text under "snippet_md" and, under one more field, the
\* serialized text.
C3_SerializationTextField ==
    op = "calculate_api" /\ exc = ""
    => \A c \in 1..2 :
          LET d == ret[c][2]
          IN  /\ HasKey(d, "snippet_md")
              /\ \E i \in 1..Len(d) :
                    d[i][1] \notin {DataKeys[j] : j \in 1..Len(DataKeys)} \cup {"snippet_md"}

\* C3 as amended: calculate_api returns the two dicts under "short" and
\* "long"; each holds the record fields of the snippet followed by the
\* Markdown text under "snippet_md", and no other field: the serialized text
\* is not part of it.
C3_MarkdownFieldOnly ==
    op = "calculate_api" /\ exc = ""
    => /\ Keys(ret) = <<"short", "long">>
       /\ \A c \in 1..2 :
             LET d == ret[c][2]
                 snippet == build_snippet(ApiInputs(args), ApiConfig(c))
             IN  /\ Keys(d) = DataKeys \o <<"snippet_md">>
                 /\ ~HasKey(d, "snippet_json")
                 /\ Get(d, "snippet_md") = snippet.snippet_md
                 /\ Get(d, "case_name") = snippet.case_name
                 /\ Get(d, "case_description") = snippet.case_description
                 /\ Get(d, "inputs") = snippet.inputs
                 /\ Get(d, "required_usable_capacity_Wh") = snippet.required_usable_capacity_Wh
                 /\ Get(d, "required_usable_capacity_Ah") = snippet.required_usable_capacity_Ah
                 /\ Get(d, "average_c_rate_during_eclipse") = snippet.average_c_rate_during_eclipse
                 /\ Get(d, "soc_operating_window") = snippet.soc_operating_window
                 /\ Get(d, "margin_and_reserve") = snippet.margin_and_reserve

\* calculate_api(90, 35, 500, 28) has returned: the short dict has the nine
\* record fields and "snippet_md" as its tenth and last key.
C3_Witness ==
    /\ op = "calculate_api"
    /\ args = <<F(90), F(35), F(500), F(28)>>
    /\ Get(ret[1][2], "required_usable_capacity_Wh") = Dec(32083, 100)
    /\ Get(ret[2][2], "required_usable_capacity_Wh") = F(350)
    /\ Len(ret[1][2]) = 10
    /\ ret[1][2][10][1] = "snippet_md"

\* The exact value of each quantity of build_snippet, from its arguments.
ExactEnergy(inp) == Div(Mul(inp.average_payload_power_W, inp.eclipse_duration_min), F(60))
ExactWh(inp, config) == Mul(ExactEnergy(inp), config.capacity_margin)
ExactAh(inp, config) ==
    IF Gt(inp.nominal_battery_voltage_V, Zero)
    THEN Div(ExactWh(inp, config), inp.nominal_battery_voltage_V) ELSE Zero
ExactCRate(inp, config) ==
    IF Gt(inp.nominal_battery_voltage_V, Zero) /\ Gt(ExactAh(inp, config), Zero)
    THEN Div(Div(inp.average_payload_power_W, inp.nominal_battery_voltage_V),
             ExactAh(inp, config))
    ELSE Zero

\* C4: build_snippet rounds only what it reports: the reported energy and
\* capacities are the exact values rounded to 2 decimals and the reported
\* C-rate the exact value rounded to 3 decimals, none computed from a rounded
\* intermediate; for (90, 35, 500, 28) the short case reports 291.67 Wh,
\* 320.83 Wh, 11.46 Ah and 1.558 C.
C4_RoundingOnlyWhenReported ==
    op = "build_snippet" /\ exc = ""
    => LET inp == args[1]
           config == args[2]
           data == json_loads(ret.snippet_json)
       IN  /\ Get(data, "eclipse_energy_Wh") = Round(ExactEnergy(inp), 2)
           /\ ret.required_usable_capacity_Wh = Round(ExactWh(inp, config), 2)
           /\ ret.required_usable_capacity_Ah = Round(ExactAh(inp, config), 2)
           /\ ret.average_c_rate_during_eclipse = Round(ExactCRate(inp, config), 3)
           /\ Get(data, "required_usable_capacity_Wh") = ret.required_usable_capacity_Wh
           /\ Get(data, "required_usable_capacity_Ah") = ret.required_usable_capacity_Ah
           /\ Get(data, "average_c_rate_during_eclipse") = ret.average_c_rate_during_eclipse
           /\ inp = MissionInputs(F(90), F(35), F(500), F(28)) /\ config = ShortConfig
                 => /\ Get(data, "eclipse_energy_Wh") = Dec(29167, 100)
                    /\ ret.required_usable_capacity_Wh = Dec(32083, 100)
                    /\ ret.required_usable_capacity_Ah = Dec(1146, 100)
                    /\ ret.average_c_rate_during_eclipse = Dec(1558, 1000)

\* The short case of the example has been built.
C4_Witness ==
    /\ op = "build_snippet"
    /\ args = <<MissionInputs(F(90), F(35), F(500), F(28)), ShortConfig>>
    /\ ret.required_usable_capacity_Wh = Dec(32083, 100)
    /\ ret.required_usable_capacity_Ah = Dec(1146, 100)
    /\ ret.average_c_rate_during_eclipse = Dec(1558, 1000)

\* The keys of the dict sizing_summary returns, in insertion order.
SizingKeys ==
    <<"base_capacity_Wh", "after_pack_loss_Wh", "after_divergence_Wh",
      "after_redundancy_Wh", "after_ageing_Wh", "after_temp_Wh",
      "anomaly_reserve_Wh", "effective_capacity_Wh", "effective_capacity_Ah">>

\* The factor 1 - p/100 as one fraction.
PctFactor(p) == Norm(100 * p[2] - p[1], 100 * p[2])
\* The factor 1 + n as one fraction.
UpliftFactor(n) == Norm(n[2] + n[1], n[2])

\* The capacity after the first k steps of the chain pack loss, divergence,
\* redundancy, ageing, temperature, for the argument tuple a of sizing_summary.
ChainFactors(a) ==
    <<PctFactor(a[3]), PctFactor(a[4]), UpliftFactor(a[5]), PctFactor(a[6]), PctFactor(a[7])>>
RECURSIVE ChainAfter(_, _)
ChainAfter(a, k) == IF k = 0 THEN a[1] ELSE Mul(ChainAfter(a, k - 1), ChainFactors(a)[k])

\* C5: sizing_summary applies pack loss, divergence, redundancy, ageing and
\* temperature in this order, each to the previous step's output, then
\* effective = max(0, after_temp - anomaly_wh); the summary lists the steps in
\* the order pack-loss, divergence, redundancy, ageing, temp, anomaly,
\* effective, and effective_capacity_Wh is never negative.
C5_SizingChainOrder ==
    op = "sizing_summary"
    => /\ Keys(ret) = SizingKeys
       /\ \A k \in 1..5 : ret[k + 1][2] = Round(ChainAfter(args, k), 2)
       /\ ret[7][2] = Round(args[8], 2)
       /\ ret[8][2] = Round(IF Gt(ChainAfter(args, 5), args[8])
                            THEN Sub(ChainAfter(args, 5), args[8]) ELSE Zero, 2)
       /\ Le(Zero, Get(ret, "effective_capacity_Wh"))

\* sizing_summary has returned for a reserve larger than the capacity left
\* after a temperature derating above 100 %.
C5_Witness ==
    /\ op = "sizing_summary"
    /\ Lt(Get(ret, "after_temp_Wh"), Zero)
    /\ Gt(Get(ret, "after_redundancy_Wh"), Get(ret, "after_divergence_Wh"))
    /\ Gt(args[8], Zero)
    /\ Get(ret, "effective_capacity_Wh") = Zero

\* The step functions in chain order, applied to a capacity c.
Step(k, c, a) ==
    CASE k = 1 -> capacity_after_pack_loss_wh(c, a[3])
      [] k = 2 -> capacity_after_divergence_wh(c, a[4])
      [] k = 3 -> capacity_after_redundancy_wh(c, a[5])
      [] k = 4 -> capacity_after_ageing_wh(c, a[6])
      [] k = 5 -> capacity_after_temp_wh(c, a[7])

RECURSIVE Unrounded(_, _)
Unrounded(a, k) == IF k = 0 THEN a[1] ELSE Step(k, Unrounded(a, k - 1), a)

\* C6 as stated: every value reported in sizing_summary is the step function
\* applied to the previously reported (rounded) value, rounded to 2 decimals.
C6_StepsUseRoundedInput ==
    op = "sizing_summary"
    => \A k \in 1..5 : ret[k + 1][2] = Round(Step(k, ret[k][2], args), 2)

\* C6 as amended: every step receives the unrounded output of the step before
\* it; rounding to 2 decimals is applied only to the values reported, so each
\* reported value is the unrounded chain value rounded, and is within half a
\* cent of it.
C6_StepsUseUnroundedInput ==
    op = "sizing_summary"
    => \A k \in 1..5 :
          /\ ret[k + 1][2] = Round(Unrounded(args, k), 2)
          /\ Le(Sub(ret[k + 1][2], Unrounded(args, k)), Dec(1, 200))
          /\ Le(Sub(Unrounded(args, k), ret[k + 1][2]), Dec(1, 200))

\* sizing_summary(12.34, pack loss 90 %, divergence 0 %, redundancy 9): 1.234
\* is reported as 1.23, and the redundancy step reports 12.34, not 12.3.
C6_Witness ==
    /\ op = "sizing_summary"
    /\ args[1] = Dec(1234, 100) /\ args[3] = F(90) /\ args[4] = F(0) /\ args[5] = F(9)
    /\ Get(ret, "after_divergence_Wh") = Dec(123, 100)
    /\ Get(ret, "after_redundancy_Wh") = Dec(1234, 100)

\* C7 as stated: series and parallel are coerced to integers and floored at 1,
\* total_cells = series * parallel >= 1, pack_capacity_Ah is
\* cell_Ah * parallel * eol_factor whatever effective_capacity_Ah and series
\* are; (5, 8, 2, 0.8) gives 16 cells, "8s × 2p" and 8.0 Ah.
C7_PackCapacityIsProduct ==
    op = "cell_level_outputs"
    => /\ Get(ret, "series") >= 1
       /\ Get(ret, "parallel") >= 1
       /\ Get(ret, "total_cells") = Get(ret, "series") * Get(ret, "parallel")
       /\ IsProduct(Get(ret, "pack_capacity_Ah"),
                    Mul(args[2], F(Get(ret, "parallel"))), args[5])

\* int(x) = n: n is x with its fractional part dropped.
Truncates(x, n) ==
    IF x[1] >= 0 THEN n * x[2] <= x[1] /\ x[1] < (n + 1) * x[2]
    ELSE (n - 1) * x[2] < x[1] /\ x[1] <= n * x[2]

\* C7 as amended: as stated, except that the reported pack_capacity_Ah is
\* cell_Ah * parallel * eol_factor rounded to 2 decimals.
C7_PackCapacityIsRoundedProduct ==
    op = "cell_level_outputs"
    => LET series_ == Get(ret, "series")
           parallel_ == Get(ret, "parallel")
       IN  /\ series_ >= 1 /\ parallel_ >= 1
           /\ Lt(args[3], One) => series_ = 1
           /\ Le(One, args[3]) => Truncates(args[3], series_)
           /\ Lt(args[4], One) => parallel_ = 1
           /\ Le(One, args[4]) => Truncates(args[4], parallel_)
           /\ Get(ret, "total_cells") = series_ * parallel_
           /\ Get(ret, "total_cells") >= 1
           /\ Get(ret, "pack_capacity_Ah")
                 = Round(Norm(args[2][1] * parallel_ * args[5][1], args[2][2] * args[5][2]), 2)
           /\ \A e \in EffAhVals, sr \in SeriesVals :
                 Get(cell_level_outputs(e, args[2], sr, args[4], args[5]), "pack_capacity_Ah")
                     = Get(ret, "pack_capacity_Ah")
           /\ args[2] = F(5) /\ args[3] = F(8) /\ args[4] = F(2) /\ args[5] = Dec(8, 10)
                 => /\ Get(ret, "total_cells") = 16
                    /\ Get(ret, "string_config") = <<"8", "s × ", "2", "p">>
                    /\ Get(ret, "pack_capacity_Ah") = F(8)

\* cell_level_outputs(cell_ah 1.14, series 0, parallel 2.5, eol 0.9): the
\* counts are 1 and 2, and 2.052 Ah is reported as 2.05.
C7_Witness ==
    /\ op = "cell_level_outputs"
    /\ args[2] = Dec(114, 100) /\ args[3] = F(0) /\ args[4] = Dec(25, 10)
    /\ args[5] = Dec(9, 10)
    /\ Get(ret, "series") = 1 /\ Get(ret, "parallel") = 2
    /\ Get(ret, "pack_capacity_Ah") = Dec(205, 100)


\* C8: in compute_advanced the limits are computed from what cell_level
\* reports: the charge and discharge currents are the reported pack_capacity_Ah
\* times the C-rates, the pack voltages the per-cell voltages times the
\* reported series (floored at 1), each rounded to 2 decimals; for 8.0 Ah,
\* series 8, rates 0.5 and 2.0, cell voltages 4.2 and 3.0 the limits are
\* 4.0 A, 16.0 A, 33.6 V and 24.0 V.
C8_LimitsFromCellLevel ==
    op = "compute_advanced"
    => LET cell == Get(ret, "cell_level")
           limits == Get(ret, "charge_discharge_limits")
           pack == Get(cell, "pack_capacity_Ah")
           series_ == Get(cell, "series")
       IN  /\ series_ >= 1
           /\ Get(limits, "max_charge_current_A") = Round(Mul(pack, args.c_rate_charge), 2)
           /\ Get(limits, "max_discharge_current_A") = Round(Mul(pack, args.c_rate_discharge), 2)
           /\ Get(limits, "eocv_pack_V") = Round(Mul(args.eocv_per_cell_v, F(series_)), 2)
           /\ Get(limits, "eodv_pack_V") = Round(Mul(args.eodv_per_cell_v, F(series_)), 2)
           /\ (/\ pack = F(8) /\ series_ = 8
               /\ args.c_rate_charge = Dec(5, 10) /\ args.c_rate_discharge = F(2)
               /\ args.eocv_per_cell_v = Dec(42, 10) /\ args.eodv_per_cell_v = F(3))
                 => /\ Get(limits, "max_charge_current_A") = F(4)
                    /\ Get(limits, "max_discharge_current_A") = F(16)
                    /\ Get(limits, "eocv_pack_V") = Dec(336, 10)
                    /\ Get(limits, "eodv_pack_V") = F(24)

\* compute_advanced has returned for cell_ah 1.14, series 0, parallel 1 and
\* eol_factor 0.9: cell_level reports 1.03 Ah (from 1.026) and series 1, and
\* the limits are 0.52 A, 2.06 A, 4.2 V and 3.0 V.
C8_Witness ==
    /\ op = "compute_advanced"
    /\ args.cell_ah = Dec(114, 100) /\ args.series = F(0)
    /\ args.parallel = F(1) /\ args.eol_factor = Dec(9, 10)
    /\ Get(Get(ret, "cell_level"), "pack_capacity_Ah") = Dec(103, 100)
    /\ Get(Get(ret, "cell_level"), "series") = 1
    /\ Get(Get(ret, "charge_discharge_limits"), "max_charge_current_A") = Dec(52, 100)
    /\ Get(Get(ret, "charge_discharge_limits"), "max_discharge_current_A") = Dec(206, 100)
    /\ Get(Get(ret, "charge_discharge_limits"), "eocv_pack_V") = Dec(42, 10)

\* The fields of limits in the order the requirements embed them.
LimitFields ==
    <<"max_charge_current_A", "max_discharge_current_A", "eocv_pack_V", "eodv_pack_V",
      "c_rate_charge", "c_rate_discharge", "taper_note">>

\* The prefixes of the requirements, in order.
ReqPrefixes ==
    <<"REQ-BMS-001:", "REQ-BMS-002:", "REQ-BMS-003:", "REQ-BMS-004:",
      "REQ-BMS-005:", "REQ-BMS-006:", "REQ-BMS-007:">>

\* The list reqs is what named_requirements makes of limits: 7 strings, the
\* i-th with the prefix REQ-BMS-00i: and the i-th field of limits embedded
\* (the numbers read back from their text equal the field; the C-rates are
\* followed by "C"; the note is embedded as it is).
Embeds(reqs, limits) ==
    /\ Len(reqs) = 7
    /\ \A i \in 1..7 : reqs[i][1] = ReqPrefixes[i]
    /\ \A i \in 1..4 :
          ParseFloat(SubSeq(reqs[i], 3, Len(reqs[i]))) = Get(limits, LimitFields[i])
    /\ \A i \in 5..6 :
          /\ reqs[i][Len(reqs[i])] = "C"
          /\ ParseFloat(SubSeq(reqs[i], 3, Len(reqs[i]) - 1)) = Get(limits, LimitFields[i])
    /\ SubSeq(reqs[7], 3, Len(reqs[7])) = <<Get(limits, LimitFields[7])>>

\* C9: named_requirements returns exactly 7 strings, the i-th beginning with
\* REQ-BMS-00i: and embedding unchanged the i-th of the fields
\* max_charge_current_A, max_discharge_current_A, eocv_pack_V, eodv_pack_V,
\* c_rate_charge, c_rate_discharge, taper_note of limits; in compute_advanced
\* the embedded values are those of the returned charge_discharge_limits.
C9_RequirementsEmbedLimits ==
    /\ op = "named_requirements" => Embeds(ret, args[1])
    /\ op = "compute_advanced"
          => Embeds(Get(ret, "named_requirements"), Get(ret, "charge_discharge_limits"))

\* compute_advanced has returned limits of 0.52 A and 2.06 A, and the first
\* two requirements read "... 0.52" and "... 2.06".
C9_Witness ==
    /\ op = "compute_advanced"
    /\ Get(Get(ret, "charge_discharge_limits"), "max_charge_current_A") = Dec(52, 100)
    /\ Get(Get(ret, "charge_discharge_limits"), "max_discharge_current_A") = Dec(206, 100)
    /\ Get(ret, "named_requirements")[1]
          = <<"REQ-BMS-001:", " Max charge current (A): ", "0", ".", "5", "2">>
    /\ Get(ret, "named_requirements")[2]
          = <<"REQ-BMS-002:", " Max discharge current (A): ", "2", ".", "0", "6">>

\* C10: a call of calculate_api with the arguments of an earlier call returns
\* what that call returned, whatever calls of calculate_api and
\* compute_advanced were made in between; no call changes
\* SHORT_LIVED_HIGH_POWER or LONG_LIVED_LOW_POWER, the only state a call reads.
C10_CalculateApiIdempotent ==
    /\ Globals = <<ShortConfig, LongConfig>>
    /\ (op = "calculate_api" /\ log # None) => (log[1] = args => ret = log[2])

\* calculate_api has returned for the arguments of a call remembered from
\* before the last call.
C10_Witness ==
    /\ op = "calculate_api"
    /\ log # None
    /\ log[3] = FALSE
    /\ log[1] = args
    /\ args = <<F(90), F(35), F(500), F(28)>>
    /\ ret = log[2]


\* 60 / (eclipse_duration_min * capacity_margin).
RateFromEclipse(inp, config) ==
    Div(F(60), Mul(inp.eclipse_duration_min, config.capacity_margin))

\* C11 as stated: for power > 0, eclipse duration > 0 and voltage > 0 the
\* unrounded C-rate of build_snippet is 60 / (eclipse_duration_min *
\* capacity_margin), whatever the power and the voltage; and whenever
\* power <= 0 the reported C-rate is 0.
C11_ZeroRateForNonPositivePower ==
    op = "build_snippet" /\ exc = ""
    => LET inp == args[1]
           config == args[2]
       IN  /\ (/\ Gt(inp.average_payload_power_W, Zero)
               /\ Gt(inp.eclipse_duration_min, Zero)
               /\ Gt(inp.nominal_battery_voltage_V, Zero))
                 => snippet_locals(inp, config).C_rate = RateFromEclipse(inp, config)
           /\ Le(inp.average_payload_power_W, Zero)
                 => ret.average_c_rate_during_eclipse = Zero

\* C11 as amended: for voltage > 0 and power and eclipse duration both
\* positive or both negative the unrounded C-rate of build_snippet is
\* 60 / (eclipse_duration_min * capacity_margin), the same for every such
\* power and voltage, and the reported C-rate is that value rounded to 3
\* decimals; in every other case (capacity_Ah <= 0: voltage <= 0, power or
\* eclipse duration 0, or the two of opposite sign) the reported C-rate is 0.
C11_RateDependsOnEclipseOnly ==
    op = "build_snippet" /\ exc = ""
    => LET inp == args[1]
           config == args[2]
           loc == snippet_locals(inp, config)
           product == Mul(inp.average_payload_power_W, inp.eclipse_duration_min)
       IN  IF Gt(inp.nominal_battery_voltage_V, Zero) /\ Gt(product, Zero)
           THEN /\ Gt(loc.C_Ah, Zero)
                /\ loc.C_rate = RateFromEclipse(inp, config)
                /\ ret.average_c_rate_during_eclipse = Round(RateFromEclipse(inp, config), 3)
                /\ \A P \in PowerVals, V \in VoltageVals :
                      Gt(V, Zero) /\ Gt(Mul(P, inp.eclipse_duration_min), Zero)
                      => snippet_locals(MissionInputs(inp.orbital_period_min,
                                                      inp.eclipse_duration_min, P, V),
                                        config).C_rate = loc.C_rate
           ELSE /\ Le(loc.C_Ah, Zero)
                /\ loc.C_rate = Zero
                /\ ret.average_c_rate_during_eclipse = Zero

\* build_snippet has returned for power -500, eclipse -35 and voltage 28 in
\* the short case: the capacity is positive and the reported C-rate is
\* -1.558, not 0.
C11_Witness ==
    /\ op = "build_snippet"
    /\ args = <<MissionInputs(F(90), F(-35), F(-500), F(28)), ShortConfig>>
    /\ ret.required_usable_capacity_Ah = Dec(1146, 100)
    /\ ret.average_c_rate_during_eclipse = Dec(-1558, 1000)

====
